---- MODULE Spec2Model ----
(***************************************************************************)
(* A model of GaiaService (src/core/gaia_service.py): the query-building,  *)
(* archive-execution, velocity-derivation and population-selection layer   *)
(* of GaiaChat; of GaiaChatAgent (src/core/agent.py), which runs the tool   *)
(* calls of the language model on the shared service; and of the session   *)
(* state of the Streamlit application (src/ui/app.py).                     *)
(*                                                                         *)
(* Conventions                                                             *)
(*   - Python Optional[x] is a sequence: <<>> is None, <<v>> is the value. *)
(*   - A float column value is a sequence: <<>> is NaN, <<v>> a velocity   *)
(*     in km/s, <<n, d>> the rational n/d (d = 0: infinity).               *)
(*   - A text is a sequence of string chunks; a stream name is a sequence  *)
(*     of one-character strings, so that str.lower() is computed.          *)
(*   - v_total = sqrt(s) is kept exactly, as the record [sqrt_of |-> s].   *)
(***************************************************************************)
EXTENDS Integers, Sequences, FiniteSets, TLC

VARIABLES
    last_result,   \* GaiaService._last_result : Optional[QueryResult]
    call,          \* the most recent service call: operation and arguments
    sent,          \* the query texts handed to Gaia.launch_job during that call
    reply,         \* what the archive answered during that call
    transform,     \* "not_run", "ok" or "failed": the frame transform in that call
    outcome,       \* what the call gave its caller: a QueryResult or an exception
    input_table,   \* the table object handed to _add_galactic_velocities in
                   \* that call, as it stands once the call is over
    agents,        \* per chat session, its GaiaChatAgent: conversation_history
                   \* and last_result
    sessions,      \* per chat session, st.session_state: messages,
                   \* current_data and show_welcome
    turns,         \* per chat session, the chat turn under way or just over:
                   \* the locals of process_query, chat and _execute_tool
    served         \* history: per chat session, the table the service
                   \* returned to its most recent successful query tool call
                   \* since its agent was constructed or cleared

service_vars ==
    <<last_result, call, sent, reply, transform, outcome, input_table>>
chat_vars == <<agents, sessions, turns, served>>
vars == <<service_vars, chat_vars>>

----------------------------------------------------------------------------
(* Bounds of the exploration *)

MaxRows == 2

\* The turns of a chat session
MaxTurns == 3

----------------------------------------------------------------------------
(* Small helpers *)

None == <<>>
Some(v) == <<v>>
NaN == <<>>
Num(v) == <<v>>

Min2(a, b) == IF a < b THEN a ELSE b
Max2(a, b) == IF a > b THEN a ELSE b
AbsInt(a) == IF a < 0 THEN -a ELSE a

RECURSIVE Gcd(_, _)
Gcd(a, b) == IF b = 0 THEN a ELSE Gcd(b, a % b)

\* Python float division a / b for b # 0, as a reduced fraction with d > 0
Rat(a, b) ==
    LET g == Gcd(AbsInt(a), AbsInt(b))
        s == IF b < 0 THEN -1 ELSE 1
    IN  <<(s * a) \div g, (s * b) \div g>>

\* numpy's a / b: inf for b = 0, no exception
FloatDivNumpy(a, b) ==
    IF b = 0 THEN [raised |-> FALSE, value |-> <<1, 0>>]
    ELSE [raised |-> FALSE, value |-> Rat(a, b)]

\* Python a / b on floats: ZeroDivisionError when b is 0
FloatDiv(a, b) ==
    IF b = 0 THEN [raised |-> TRUE, value |-> NaN]
    ELSE [raised |-> FALSE, value |-> Rat(a, b)]

\* All sequences without repetition, of length at most n, over the set S
Distinct(t) == \A i, j \in 1..Len(t) : i # j => t[i] # t[j]

RECURSIVE SeqsUpTo(_, _)
SeqsUpTo(S, n) ==
    IF n = 0 THEN {<<>>}
    ELSE LET shorter == SeqsUpTo(S, n - 1)
         IN  shorter \cup
             {t \in {Append(u, x) : u \in shorter, x \in S} : Distinct(t)}

----------------------------------------------------------------------------
(* Configuration: src/core/config.py *)

gaia_table == "gaiadr3.gaia_source"
max_query_results == 10000
default_query_results == 1000

----------------------------------------------------------------------------
(* Text: str.lower() on a name held as a sequence of characters *)

UpperCase == <<"A", "B", "C", "D", "E", "F", "G", "H", "I", "J", "K", "L", "M",
               "N", "O", "P", "Q", "R", "S", "T", "U", "V", "W", "X", "Y", "Z">>
LowerCase == <<"a", "b", "c", "d", "e", "f", "g", "h", "i", "j", "k", "l", "m",
               "n", "o", "p", "q", "r", "s", "t", "u", "v", "w", "x", "y", "z">>

LowerChar(c) ==
    IF \E i \in 1..Len(UpperCase) : UpperCase[i] = c
    THEN LowerCase[CHOOSE i \in 1..Len(UpperCase) : UpperCase[i] = c]
    ELSE c

\* the name as written, str.lower() forgotten
LowerForgotten(name) == name

Lower(name) == [i \in 1..Len(name) |-> LowerChar(name[i])]

----------------------------------------------------------------------------
(* Tables (pandas.DataFrame) and result bundles *)

\* A DataFrame: its column names and its rows, in order
DataFrame(columns, rows) == [columns |-> columns, rows |-> rows]

\* len(df)
DfLen(df) == Len(df.rows)

\* df[mask].reset_index(drop=True): the rows whose mask entry is True, in
\* order; the mask is a boolean per row
Masked(df, mask) ==
    LET kept == SelectSeq([i \in 1..Len(df.rows) |-> i], LAMBDA i : mask[i])
    IN  DataFrame(df.columns, [k \in 1..Len(kept) |-> df.rows[kept[k]]])

\* df.index
Index(df) == 1..Len(df.rows)

\* df.iloc[1:n + 1]: a slice that starts one row late
DfHeadFromSecond(df, n) ==
    DataFrame(df.columns, SubSeq(df.rows, 2, Min2(n + 1, Len(df.rows))))

\* df.head(n): the first n rows; for n < 0 all but the last -n rows
DfHead(df, n) ==
    DataFrame(df.columns,
              SubSeq(df.rows, 1, IF n >= 0 THEN Min2(n, DfLen(df))
                                 ELSE Max2(DfLen(df) + n, 0)))

\* class QueryResult
QueryResult(data, query, row_count, description) ==
    [data |-> data, query |-> query, row_count |-> row_count,
     description |-> description]

\* A description text: a template and the values formatted into it
Text(template, args) == [text |-> template, args |-> args]

----------------------------------------------------------------------------
(* ADQL query texts.  A query text is kept by its parts: the row cap after *)
(* TOP, the selected columns, the table, the WHERE conditions in order and *)
(* the ORDER BY clause (None when the text has none).  A condition is its  *)
(* text and the numbers formatted into it.                                 *)

Cond(text, value) == [text |-> text, value |-> value]

Adql(top, select, where, order_by) ==
    [top |-> top, select |-> select, from |-> gaia_table,
     where |-> where, order_by |-> order_by]

BaseColumns ==
    <<"source_id", "ra", "dec", "parallax", "parallax_error",
      "pmra", "pmdec", "radial_velocity", "phot_g_mean_mag", "bp_rp", "l", "b">>

HypervelocityColumns ==
    <<"source_id", "ra", "dec", "parallax", "parallax_error",
      "pmra", "pmdec", "pmra_error", "pmdec_error",
      "radial_velocity", "radial_velocity_error",
      "phot_g_mean_mag", "bp_rp", "l", "b">>

\* limit or self.max_results: the ceiling taken for the default
OrDefaultCeiling(limit, default) ==
    IF limit = None \/ limit = Some(0) THEN max_query_results ELSE limit[1]

\* limit or default: None and 0 are falsy
OrDefault(limit, default) ==
    IF limit = None \/ limit = Some(0) THEN default ELSE limit[1]

----------------------------------------------------------------------------
(* The archive: Gaia.launch_job(query).get_results().to_pandas()           *)
(* It fails with a message, or serves at most TOP n of the rows it holds   *)
(* (`archive`), with the selected columns; a row cap below 1 is not ADQL   *)
(* and is refused.                                                         *)

ArchiveMessages == {"Read timed out", "Cannot parse query"}

ArchiveFailure(message) == [ok |-> FALSE, rows |-> <<>>, message |-> message]
ArchiveRows(rows) == [ok |-> TRUE, rows |-> rows, message |-> ""]

ArchiveReplies(archive, query) ==
    {ArchiveFailure(m) : m \in ArchiveMessages}
    \cup (IF query.top >= 1
          THEN {ArchiveRows(t) :
                   t \in SeqsUpTo(archive, Min2(MaxRows, query.top))}
          ELSE {})

\* execute_adql with the failure swallowed: an empty bundle is returned
ExecuteAdqlSwallows(query, r) ==
    [kind |-> "returned",
     result |-> QueryResult(DataFrame(query.select, r.rows), query, Len(r.rows),
                            Text("Query returned {len(df)} rows",
                                 <<Len(r.rows)>>))]

\* execute_adql up to the return or the raise; the assignment to
\* self._last_result is made by the action that uses it
ExecuteAdql(query, r) ==
    IF r.ok
    THEN [kind |-> "returned",
          result |-> QueryResult(DataFrame(query.select, r.rows), query,
                                 Len(r.rows),
                                 Text("Query returned {len(df)} rows",
                                      <<Len(r.rows)>>))]
    ELSE [kind |-> "raised", exc |-> "RuntimeError",
          message |-> <<"ADQL query failed: ", r.message>>]

\* An exception raised by the operation itself
Raised(exc, message) == [kind |-> "raised", exc |-> exc, message |-> message]
Returned(result) == [kind |-> "returned", result |-> result]
\* A table returned to the caller
ReturnedTable(df) == [kind |-> "table", table |-> df]
\* A query text returned to the caller
ReturnedText(query) == [kind |-> "text", text |-> query]
NoOutcome == [kind |-> "none"]

----------------------------------------------------------------------------
(* Float comparisons: any comparison with NaN is False *)

Gt(x, k) == x # NaN /\ x[1] > k
Lt(x, k) == x # NaN /\ x[1] < k
\* np.abs(x) < k and np.abs(x) > k
AbsLt(x, k) == x # NaN /\ AbsInt(x[1]) < k
AbsGt(x, k) == x # NaN /\ AbsInt(x[1]) > k

\* np.sqrt(s) for an exact s >= 0, kept as the root of s
SqrtOf(s) == <<"sqrt", s>>
\* sqrt(s) > k
SqrtGt(x, k) == x # NaN /\ (k < 0 \/ x[2] > k * k)

----------------------------------------------------------------------------
(* _add_galactic_velocities                                                *)
(* The frame transform itself is astropy's.  A fetched row carries, as     *)
(* `kinematics`, the (V_R, V_phi, V_z) that the transform yields for its   *)
(* ra, dec, pmra, pmdec together with its parallax and radial velocity;    *)
(* the model computes when that value is produced, when NaN is, and when   *)
(* the whole batch falls to the except branch.                             *)

DerivedColumns == <<"V_R", "V_phi", "V_z", "v_total", "distance_kpc">>

\* SkyCoord(...) refuses a negative distance (1000 / parallax < 0); any
\* other failure inside the try block is the library's (lib_fails)
TransformRaises(df, lib_fails) ==
    lib_fails \/ \E i \in 1..DfLen(df) :
                    df.rows[i].parallax # NaN /\ df.rows[i].parallax[1] < 0

\* NaN propagates through the transform from parallax or radial_velocity
HasPhaseSpace(row) ==
    row.parallax # NaN /\ row.parallax[1] # 0 /\ row.radial_velocity # NaN

\* 1.0 / df['parallax'] (numpy: 1/0 is inf, NaN stays NaN)
InverseParallax(parallax) ==
    IF parallax = NaN THEN NaN
    ELSE IF parallax[1] = 0 THEN <<1, 0>>
    ELSE Rat(1, parallax[1])

\* The columns written in the try block, lines 420-432
WithVelocities(row) ==
    LET ok == HasPhaseSpace(row)
        vr == IF ok THEN Num(row.kinematics[1]) ELSE NaN
        vphi == IF ok THEN Num(row.kinematics[2]) ELSE NaN
        vz == IF ok THEN Num(row.kinematics[3]) ELSE NaN
    IN  row @@ [V_R |-> vr, V_phi |-> vphi, V_z |-> vz,
                v_total |-> IF ok
                            THEN SqrtOf(vr[1] * vr[1] + vphi[1] * vphi[1]
                                        + vz[1] * vz[1])
                            ELSE NaN,
                distance_kpc |-> InverseParallax(row.parallax)]

\* the except branch filling in 0 instead of np.nan
WithZeros(row) ==
    row @@ [V_R |-> Num(0), V_phi |-> Num(0), V_z |-> Num(0),
            v_total |-> Num(0), distance_kpc |-> Num(0)]

\* The columns written in the except branch, lines 437-438
WithMissing(row) ==
    row @@ [V_R |-> NaN, V_phi |-> NaN, V_z |-> NaN, v_total |-> NaN,
            distance_kpc |-> NaN]

\* returned: the table handed back; input_after: the caller's table object
\* once the call is over (the except branch assigns into it in place)
_add_galactic_velocities(df, lib_fails) ==
    IF DfLen(df) = 0 THEN [returned |-> df, input_after |-> df]
    ELSE IF TransformRaises(df, lib_fails)
    THEN LET filled == DataFrame(df.columns \o DerivedColumns,
                                 [i \in 1..DfLen(df) |-> WithMissing(df.rows[i])])
         IN  [returned |-> filled, input_after |-> filled]
    ELSE [returned |-> DataFrame(df.columns \o DerivedColumns,
                                 [i \in 1..DfLen(df) |-> WithVelocities(df.rows[i])]),
          input_after |-> df]

TransformStatus(df, lib_fails) ==
    IF DfLen(df) = 0 THEN "not_run"
    ELSE IF TransformRaises(df, lib_fails) THEN "failed" ELSE "ok"

----------------------------------------------------------------------------
(* _get_stream_criteria: the registry of named streams *)

Chars_nyx == <<"n", "y", "x">>
Chars_gse == <<"g", "s", "e">>
Chars_gaia_sausage_enceladus ==
    <<"g", "a", "i", "a", "-", "s", "a", "u", "s", "a", "g", "e", "-",
      "e", "n", "c", "e", "l", "a", "d", "u", "s">>
Chars_helmi == <<"h", "e", "l", "m", "i">>
Chars_sequoia == <<"s", "e", "q", "u", "o", "i", "a">>

Entry(chars, key, adql_filter, description) ==
    [chars |-> chars, key |-> key, adql_filter |-> adql_filter,
     description |-> Text(description, <<>>)]

\* The dict `streams`: each entry's key (its characters and the string),
\* ADQL fragment and description; the entry's velocity_filter is
\* VelocityFilter below
streams ==
    {Entry(Chars_nyx, "nyx", <<Cond("AND b > -30 AND b < 30", <<>>)>>,
           "Nyx stream candidates - prograde structure near the disk, discovered by Necib et al. 2020"),
     Entry(Chars_gse, "gse", <<>>,
           "Gaia-Sausage-Enceladus candidates - major merger remnant with highly radial orbits"),
     Entry(Chars_gaia_sausage_enceladus, "gaia-sausage-enceladus", <<>>,
           "Gaia-Sausage-Enceladus candidates - major merger remnant with highly radial orbits"),
     Entry(Chars_helmi, "helmi", <<>>,
           "Helmi stream candidates - tidally disrupted dwarf galaxy"),
     Entry(Chars_sequoia, "sequoia", <<>>,
           "Sequoia candidates - retrograde merger remnant")}

\* streams.get(stream_name, streams["gse"]): a fallback entry for any key
GetWithFallback(stream_name) ==
    LET found == {e \in streams : e.chars = stream_name}
    IN  IF found = {} THEN Some(CHOOSE e \in streams : e.key = "gse")
        ELSE Some(CHOOSE e \in found : TRUE)

\* streams.get(stream_name): the entry, or None
_get_stream_criteria(stream_name) ==
    LET found == {e \in streams : e.chars = stream_name}
    IN  IF found = {} THEN None ELSE Some(CHOOSE e \in found : TRUE)

\* Nyx with V_R >= 100 for V_R > 100
NyxFilterInclusive(df) ==
    Masked(df, [i \in Index(df) |->
                   Gt(df.rows[i].V_phi, 100)
                   /\ Gt(df.rows[i].V_R, 99) /\ Lt(df.rows[i].V_R, 200)])

NyxFilter(df) ==
    Masked(df, [i \in Index(df) |->
                   Gt(df.rows[i].V_phi, 100)
                   /\ Gt(df.rows[i].V_R, 100) /\ Lt(df.rows[i].V_R, 200)])
GseFilter(df) ==
    Masked(df, [i \in Index(df) |->
                   AbsLt(df.rows[i].V_phi, 50) /\ AbsGt(df.rows[i].V_R, 150)])
GaiaSausageEnceladusFilter(df) ==
    Masked(df, [i \in Index(df) |->
                   AbsLt(df.rows[i].V_phi, 50) /\ AbsGt(df.rows[i].V_R, 150)])
HelmiFilter(df) ==
    Masked(df, [i \in Index(df) |->
                   Gt(df.rows[i].V_z, 150) \/ Lt(df.rows[i].V_z, -150)])
SequoiaFilter(df) ==
    Masked(df, [i \in Index(df) |-> Lt(df.rows[i].V_phi, -150)])

\* stream_criteria['velocity_filter'](df)
VelocityFilter(key, df) ==
    CASE key = "nyx" -> NyxFilter(df)
      [] key = "gse" -> GseFilter(df)
      [] key = "gaia-sausage-enceladus" -> GaiaSausageEnceladusFilter(df)
      [] key = "helmi" -> HelmiFilter(df)
      [] key = "sequoia" -> SequoiaFilter(df)

----------------------------------------------------------------------------
(* The post-fetch selections of the other two populations *)

\* the cut with v_total >= min_velocity_kms
HypervelocityFilterInclusive(df, min_velocity_kms) ==
    Masked(df, [i \in Index(df) |->
                   \/ SqrtGt(df.rows[i].v_total, min_velocity_kms)
                   \/ /\ df.rows[i].v_total # NaN
                      /\ min_velocity_kms >= 0
                      /\ df.rows[i].v_total[2]
                            = min_velocity_kms * min_velocity_kms])

\* result.data[result.data['v_total'] > min_velocity_kms]
HypervelocityFilter(df, min_velocity_kms) ==
    Masked(df, [i \in Index(df) |->
                   SqrtGt(df.rows[i].v_total, min_velocity_kms)])

\* the selection of all orbits without its counter-rotating clause
AccretedHaloSelectLowRotationOnly(df, retrograde_only, limit) ==
    IF retrograde_only
    THEN DfHead(Masked(df, [i \in Index(df) |-> Lt(df.rows[i].V_phi, -50)]),
                limit)
    ELSE DfHead(Masked(df, [i \in Index(df) |-> AbsLt(df.rows[i].V_phi, 100)]),
                limit)

\* head(limit) taken before the V_phi mask instead of after it
AccretedHaloSelectHeadFirst(df, retrograde_only, limit) ==
    LET first == DfHead(df, limit)
    IN  IF retrograde_only
        THEN Masked(first, [i \in Index(first) |-> Lt(first.rows[i].V_phi, -50)])
        ELSE Masked(first, [i \in Index(first) |->
                               AbsLt(first.rows[i].V_phi, 100)
                               \/ Lt(first.rows[i].V_phi, -50)])

\* the two branches of search_accreted_halo, each followed by head(limit)
AccretedHaloSelect(df, retrograde_only, limit) ==
    IF retrograde_only
    THEN DfHead(Masked(df, [i \in Index(df) |-> Lt(df.rows[i].V_phi, -50)]),
                limit)
    ELSE DfHead(Masked(df, [i \in Index(df) |->
                               AbsLt(df.rows[i].V_phi, 100)
                               \/ Lt(df.rows[i].V_phi, -50)]),
                limit)

----------------------------------------------------------------------------
(* Query texts of the service operations *)

ConeQuery(ra, dec, radius, limit) ==
    Adql(limit, BaseColumns,
         <<Cond("1=CONTAINS(POINT('ICRS', ra, dec), CIRCLE('ICRS', {ra}, {dec}, {radius}))",
                <<ra, dec, radius>>),
           Cond("AND parallax IS NOT NULL", <<>>),
           Cond("AND parallax > 0", <<>>)>>,
         Some("parallax DESC"))

SolarNeighborhoodQuery(min_parallax, limit) ==
    Adql(limit, Append(BaseColumns, "ruwe"),
         <<Cond("parallax > {min_parallax}", min_parallax),
           Cond("AND parallax_over_error > 10", <<>>),
           Cond("AND ruwe < 1.4", <<>>)>>,
         Some("parallax DESC"))

min_pm == 20

HypervelocityQuery(min_parallax, limit) ==
    Adql(limit, HypervelocityColumns,
         <<Cond("parallax > {min_parallax}", min_parallax),
           Cond("AND parallax_over_error > 5", <<>>),
           Cond("AND radial_velocity IS NOT NULL", <<>>),
           Cond("AND SQRT(pmra*pmra + pmdec*pmdec) > {min_pm}", <<min_pm>>)>>,
         Some("SQRT(pmra*pmra + pmdec*pmdec) DESC"))

StreamQuery(adql_filter, limit) ==
    Adql(limit, BaseColumns,
         <<Cond("parallax > 0.2", <<>>),
           Cond("AND parallax_over_error > 5", <<>>),
           Cond("AND radial_velocity IS NOT NULL", <<>>)>> \o adql_filter,
         Some("parallax DESC"))

AccretedHaloQuery(limit) ==
    Adql(limit * 2, BaseColumns,
         <<Cond("parallax > 0.5", <<>>),
           Cond("AND parallax_over_error > 5", <<>>),
           Cond("AND radial_velocity IS NOT NULL", <<>>),
           Cond("AND ABS(b) > 30", <<>>)>>,
         Some("SQRT(pmra*pmra + pmdec*pmdec) DESC"))

\* sep.join(items), the separator kept between the items
RECURSIVE Join(_, _)
Join(sep, items) ==
    IF Len(items) <= 1 THEN items
    ELSE <<Head(items), sep>> \o Join(sep, Tail(items))

\* if order_by: None and the empty string are falsy
Truthy(order_by) == order_by # None /\ order_by # Some("")

\* The text build_custom_adql returns
BuildCustomAdql(columns, conditions, limit, order_by) ==
    LET lim == OrDefault(limit, default_query_results)
        select_clause == IF columns # <<>> THEN columns ELSE <<"*">>
        where_clause ==
            IF conditions # <<>>
            THEN Join(Cond(" AND ", <<>>),
                      [i \in 1..Len(conditions) |-> Cond(conditions[i], <<>>)])
            ELSE <<Cond("1=1", <<>>)>>
    IN  Adql(lim, select_clause, where_clause,
             IF Truthy(order_by) THEN order_by ELSE None)

----------------------------------------------------------------------------
(* What each operation does with the bundle execute_adql gave it *)

ConeResult(res, ra, dec, radius) ==
    [res EXCEPT !.description =
        Text("Cone search: {radius} deg around (RA={ra} deg, Dec={dec} deg)",
             <<radius, ra, dec>>)]

SolarNeighborhoodResult(res, distance_pc) ==
    [res EXCEPT !.description =
        Text("Solar neighborhood within {distance_pc} pc", <<distance_pc>>)]

\* the hypervelocity cut without `result.row_count = len(result.data)`
HypervelocityResultStaleCount(res, distance_kpc, min_velocity_kms, lib_fails) ==
    LET selected == HypervelocityFilter(
                        _add_galactic_velocities(res.data, lib_fails).returned,
                        min_velocity_kms)
        description ==
            Text("Hypervelocity candidates within {distance_kpc} kpc, v > {min_velocity_kms} km/s",
                 <<distance_kpc, min_velocity_kms>>)
    IN  IF DfLen(res.data) > 0
        THEN [res EXCEPT !.data = selected, !.description = description]
        ELSE [res EXCEPT !.description = description]

HypervelocityResult(res, distance_kpc, min_velocity_kms, lib_fails) ==
    LET selected == HypervelocityFilter(
                        _add_galactic_velocities(res.data, lib_fails).returned,
                        min_velocity_kms)
        description ==
            Text("Hypervelocity candidates within {distance_kpc} kpc, v > {min_velocity_kms} km/s",
                 <<distance_kpc, min_velocity_kms>>)
    IN  IF DfLen(res.data) > 0
        THEN [res EXCEPT !.data = selected, !.row_count = DfLen(selected),
                         !.description = description]
        ELSE [res EXCEPT !.description = description]

StellarStreamResult(res, criteria, lib_fails) ==
    LET selected == VelocityFilter(
                        criteria.key,
                        _add_galactic_velocities(res.data, lib_fails).returned)
    IN  IF DfLen(res.data) > 0
        THEN [res EXCEPT !.data = selected, !.row_count = DfLen(selected),
                         !.description = criteria.description]
        ELSE [res EXCEPT !.description = criteria.description]

\* the description assigned inside `if len(result.data) > 0`
AccretedHaloResultDescribesInside(res, retrograde_only, limit, lib_fails) ==
    LET selected == AccretedHaloSelect(
                        _add_galactic_velocities(res.data, lib_fails).returned,
                        retrograde_only, limit)
        description ==
            IF retrograde_only
            THEN Text("Accreted halo stars (retrograde orbits only)", <<>>)
            ELSE Text("Accreted halo stars", <<>>)
    IN  IF DfLen(res.data) > 0
        THEN [res EXCEPT !.data = selected, !.row_count = DfLen(selected),
                         !.description = description]
        ELSE res

AccretedHaloResult(res, retrograde_only, limit, lib_fails) ==
    LET selected == AccretedHaloSelect(
                        _add_galactic_velocities(res.data, lib_fails).returned,
                        retrograde_only, limit)
        description ==
            IF retrograde_only
            THEN Text("Accreted halo stars (retrograde orbits only)", <<>>)
            ELSE Text("Accreted halo stars", <<>>)
    IN  IF DfLen(res.data) > 0
        THEN [res EXCEPT !.data = selected, !.row_count = DfLen(selected),
                         !.description = description]
        ELSE [res EXCEPT !.description = description]

----------------------------------------------------------------------------
(* The state after construction *)

NoCall == [op |-> "none", args |-> [limit |-> None]]

InitService ==
    /\ last_result = None
    /\ call = NoCall
    /\ sent = <<>>
    /\ reply = None
    /\ transform = "not_run"
    /\ outcome = NoOutcome
    /\ input_table = None

\* A fresh GaiaChatAgent (agent.py, __init__)
NewAgent == [conversation_history |-> <<>>, last_result |-> None]

\* st.session_state after initialize_session_state (its agent is in `agents`)
NewSessionState ==
    [messages |-> <<>>, current_data |-> None, show_welcome |-> TRUE]

\* No chat turn under way; count is the number of turns the session started
IdleTurn(count) ==
    [pc |-> "idle", count |-> count, tool_calls |-> <<>>, pending |-> <<>>,
     tool_results |-> <<>>, plot_type |-> None, query_used |-> None,
     requests |-> <<>>, response |-> None, raised |-> FALSE]

\* The chat sessions S opened on the application, none having asked yet
InitChat(S) ==
    /\ agents = [s \in S |-> NewAgent]
    /\ sessions = [s \in S |-> NewSessionState]
    /\ turns = [s \in S |-> IdleTurn(0)]
    /\ served = [s \in S |-> None]

----------------------------------------------------------------------------
(* The service operations *)

\* The operation raised before it reached the archive
RaiseEarly(exc, message) ==
    /\ sent' = <<>>
    /\ reply' = None
    /\ transform' = "not_run"
    /\ outcome' = Raised(exc, message)
    /\ input_table' = None
    /\ UNCHANGED last_result

\* result.data as execute_adql built it, once the operation has passed it
\* to _add_galactic_velocities (status is then "ok" or "failed": the
\* operations skip the transform on an empty table); None when the
\* operation passed no table to the transform
TableAfter(query, r, status, ex) ==
    IF ex.kind = "returned" /\ status # "not_run"
    THEN Some(_add_galactic_velocities(DataFrame(query.select, r.rows),
                                       status = "failed").input_after)
    ELSE None

\* a failed archive call tried a second time before the failure is raised
ExecutedRetries(query, r, status, ex, final) ==
    /\ sent' = IF ex.kind = "returned" THEN <<query>> ELSE <<query, query>>
    /\ reply' = Some(r)
    /\ transform' = IF ex.kind = "returned" THEN status ELSE "not_run"
    /\ outcome' = IF ex.kind = "returned" THEN Returned(final) ELSE ex
    /\ input_table' = TableAfter(query, r, status, ex)
    /\ last_result' = IF ex.kind = "returned" THEN Some(final) ELSE last_result

\* _last_result left holding the bundle as fetched, while the caller gets
\* the bundle after the selection
ExecutedKeepsFetched(query, r, status, ex, final) ==
    /\ sent' = <<query>>
    /\ reply' = Some(r)
    /\ transform' = IF ex.kind = "returned" THEN status ELSE "not_run"
    /\ outcome' = IF ex.kind = "returned" THEN Returned(final) ELSE ex
    /\ input_table' = TableAfter(query, r, status, ex)
    /\ last_result' = IF ex.kind = "returned" THEN Some(ex.result)
                      ELSE last_result

\* The operation handed `query` to execute_adql, the archive answered r, and
\* the operation went on to return `final` (the bundle execute_adql stored
\* in _last_result is the very object the operation then updates and returns)
Executed(query, r, status, ex, final) ==
    /\ sent' = <<query>>
    /\ reply' = Some(r)
    /\ transform' = IF ex.kind = "returned" THEN status ELSE "not_run"
    /\ outcome' = IF ex.kind = "returned" THEN Returned(final) ELSE ex
    /\ input_table' = TableAfter(query, r, status, ex)
    /\ last_result' = IF ex.kind = "returned" THEN Some(final) ELSE last_result

execute_adql(archive, query) ==
    /\ call' = [op |-> "execute_adql", args |-> [query |-> query]]
    /\ \E r \in ArchiveReplies(archive, query) :
          LET ex == ExecuteAdql(query, r)
          IN  Executed(query, r, "not_run", ex,
                       IF ex.kind = "returned" THEN ex.result ELSE ex)

search_cone(archive, ra, dec, radius, limit) ==
    LET lim == OrDefault(limit, default_query_results)
        query == ConeQuery(ra, dec, radius, lim)
    IN  /\ call' = [op |-> "search_cone",
                    args |-> [ra |-> ra, dec |-> dec, radius |-> radius,
                              limit |-> limit]]
        /\ \E r \in ArchiveReplies(archive, query) :
              LET ex == ExecuteAdql(query, r)
              IN  Executed(query, r, "not_run", ex,
                           IF ex.kind = "returned"
                           THEN ConeResult(ex.result, ra, dec, radius) ELSE ex)

search_solar_neighborhood(archive, distance_pc, limit) ==
    LET lim == OrDefault(limit, default_query_results)
        min_parallax == FloatDiv(1000, distance_pc)
    IN  /\ call' = [op |-> "search_solar_neighborhood",
                    args |-> [distance_pc |-> distance_pc, limit |-> limit]]
        /\ IF min_parallax.raised
           THEN RaiseEarly("ZeroDivisionError", <<"float division by zero">>)
           ELSE LET query == SolarNeighborhoodQuery(min_parallax.value, lim)
                IN  \E r \in ArchiveReplies(archive, query) :
                       LET ex == ExecuteAdql(query, r)
                       IN  Executed(query, r, "not_run", ex,
                                    IF ex.kind = "returned"
                                    THEN SolarNeighborhoodResult(ex.result,
                                                                 distance_pc)
                                    ELSE ex)

search_hypervelocity_stars(archive, distance_kpc, min_velocity_kms, limit) ==
    LET lim == OrDefault(limit, Min2(500, default_query_results))
        min_parallax == FloatDiv(1, distance_kpc)
    IN  /\ call' = [op |-> "search_hypervelocity_stars",
                    args |-> [distance_kpc |-> distance_kpc,
                              min_velocity_kms |-> min_velocity_kms,
                              limit |-> limit]]
        /\ IF min_parallax.raised
           THEN RaiseEarly("ZeroDivisionError", <<"float division by zero">>)
           ELSE LET query == HypervelocityQuery(min_parallax.value, lim)
                IN  \E r \in ArchiveReplies(archive, query), lib_fails \in BOOLEAN :
                       LET ex == ExecuteAdql(query, r)
                       IN  Executed(query, r,
                                    TransformStatus(DataFrame(query.select, r.rows),
                                                    lib_fails),
                                    ex,
                                    IF ex.kind = "returned"
                                    THEN HypervelocityResult(ex.result, distance_kpc,
                                                             min_velocity_kms,
                                                             lib_fails)
                                    ELSE ex)

search_stellar_stream(archive, stream_name, limit) ==
    LET lim == OrDefault(limit, default_query_results)
        lowered == Lower(stream_name)
        stream_criteria == _get_stream_criteria(lowered)
    IN  /\ call' = [op |-> "search_stellar_stream",
                    args |-> [stream_name |-> stream_name, limit |-> limit]]
        /\ IF stream_criteria = None
           THEN RaiseEarly("ValueError",
                           <<"Unknown stream: ">> \o lowered \o
                           <<". Supported: Nyx, GSE, Gaia-Sausage-Enceladus, Helmi, Sequoia">>)
           ELSE LET query == StreamQuery(stream_criteria[1].adql_filter, lim)
                IN  \E r \in ArchiveReplies(archive, query), lib_fails \in BOOLEAN :
                       LET ex == ExecuteAdql(query, r)
                       IN  Executed(query, r,
                                    TransformStatus(DataFrame(query.select, r.rows),
                                                    lib_fails),
                                    ex,
                                    IF ex.kind = "returned"
                                    THEN StellarStreamResult(ex.result,
                                                             stream_criteria[1],
                                                             lib_fails)
                                    ELSE ex)

search_accreted_halo(archive, retrograde_only, limit) ==
    LET lim == OrDefault(limit, default_query_results)
        query == AccretedHaloQuery(lim)
    IN  /\ call' = [op |-> "search_accreted_halo",
                    args |-> [retrograde_only |-> retrograde_only,
                              limit |-> limit]]
        /\ \E r \in ArchiveReplies(archive, query), lib_fails \in BOOLEAN :
              LET ex == ExecuteAdql(query, r)
              IN  Executed(query, r,
                           TransformStatus(DataFrame(query.select, r.rows),
                                           lib_fails),
                           ex,
                           IF ex.kind = "returned"
                           THEN AccretedHaloResult(ex.result, retrograde_only,
                                                   lim, lib_fails)
                           ELSE ex)

\* build_custom_adql that also keeps what it built as the last result
BuildCustomAdqlCaches(columns, conditions, limit, order_by) ==
    LET query == BuildCustomAdql(columns, conditions, limit, order_by)
    IN  /\ call' = [op |-> "build_custom_adql",
                    args |-> [columns |-> columns, conditions |-> conditions,
                              limit |-> limit, order_by |-> order_by]]
        /\ sent' = <<>>
        /\ reply' = None
        /\ transform' = "not_run"
        /\ input_table' = None
        /\ outcome' = ReturnedText(query)
        /\ last_result' = Some(QueryResult(DataFrame(query.select, <<>>), query,
                                           0, Text("", <<>>)))

build_custom_adql(columns, conditions, limit, order_by) ==
    /\ call' = [op |-> "build_custom_adql",
                args |-> [columns |-> columns, conditions |-> conditions,
                          limit |-> limit, order_by |-> order_by]]
    /\ sent' = <<>>
    /\ reply' = None
    /\ transform' = "not_run"
    /\ input_table' = None
    /\ outcome' = ReturnedText(BuildCustomAdql(columns, conditions, limit,
                                               order_by))
    /\ UNCHANGED last_result

\* _add_galactic_velocities called on a table of the caller's; library_fails
\* tells whether astropy failed during the call for a reason of its own
AddGalacticVelocities(df, lib_fails) ==
    LET result == _add_galactic_velocities(df, lib_fails)
    IN  /\ call' = [op |-> "_add_galactic_velocities",
                    args |-> [df |-> df],
                    library_fails |-> lib_fails]
        /\ sent' = <<>>
        /\ reply' = None
        /\ transform' = TransformStatus(df, lib_fails)
        /\ outcome' = ReturnedTable(result.returned)
        /\ input_table' = Some(result.input_after)
        /\ UNCHANGED last_result

----------------------------------------------------------------------------
(* GaiaChatAgent._execute_tool (agent.py).  A tool call is its id, the     *)
(* tool name and the arguments dict, a function from keys to values.       *)

\* arguments.get(key, default) and arguments.get(key)
Get(arguments, key, default) ==
    IF key \in DOMAIN arguments THEN arguments[key] ELSE default
GetOrNone(arguments, key) ==
    IF key \in DOMAIN arguments THEN Some(arguments[key]) ELSE None

QueryTools ==
    {"search_solar_neighborhood", "search_cone", "search_hypervelocity_stars",
     "search_stellar_stream", "search_accreted_halo", "execute_custom_adql"}

\* The keys a branch reads as arguments[key], in the order it reads them
RequiredKeys(tool_name) ==
    CASE tool_name = "search_cone" -> <<"ra", "dec">>
      [] tool_name = "search_stellar_stream" -> <<"stream_name">>
      [] tool_name = "execute_custom_adql" -> <<"query">>
      [] tool_name = "suggest_visualization" -> <<"plot_type">>
      [] OTHER -> <<>>

Missing(tool_name, arguments) ==
    SelectSeq(RequiredKeys(tool_name), LAMBDA k : k \notin DOMAIN arguments)

\* str(KeyError(key))
KeyErrorText(key) == <<"'", key, "'">>

\* {"success": False, "error": ...}
ToolFailure(message) == [success |-> FALSE, error |-> message]

\* The dict a branch returns after its service call returned `result`
\* (sample is given by its rows)
ToolSuccess(tool_name, arguments, result) ==
    LET some == DfLen(result.data) > 0
        columns == IF some THEN result.data.columns ELSE <<>>
    IN  CASE tool_name = "search_solar_neighborhood" ->
                [success |-> TRUE, row_count |-> result.row_count,
                 description |-> result.description, query |-> result.query,
                 columns |-> columns,
                 sample |-> IF some THEN DfHead(result.data, 5).rows ELSE <<>>]
          [] tool_name = "search_cone" ->
                [success |-> TRUE, row_count |-> result.row_count,
                 description |-> result.description, query |-> result.query]
          [] tool_name = "search_hypervelocity_stars" ->
                [success |-> TRUE, row_count |-> result.row_count,
                 description |-> result.description, columns |-> columns,
                 has_velocities |->
                     some /\ \E k \in 1..Len(columns) : columns[k] = "v_total"]
          [] tool_name = "search_stellar_stream" ->
                [success |-> TRUE, row_count |-> result.row_count,
                 description |-> result.description,
                 stream |-> arguments.stream_name]
          [] tool_name = "search_accreted_halo" ->
                [success |-> TRUE, row_count |-> result.row_count,
                 description |-> result.description]
          [] tool_name = "execute_custom_adql" ->
                [success |-> TRUE, row_count |-> result.row_count,
                 query |-> result.query]

\* The call a branch makes on the shared gaia_service
ServiceCall(archive, tool_name, a) ==
    \/ /\ tool_name = "search_solar_neighborhood"
       /\ search_solar_neighborhood(archive, Get(a, "distance_pc", 100),
                                    GetOrNone(a, "limit"))
    \/ /\ tool_name = "search_cone"
       /\ search_cone(archive, a.ra, a.dec, Get(a, "radius", 1),
                      GetOrNone(a, "limit"))
    \/ /\ tool_name = "search_hypervelocity_stars"
       /\ search_hypervelocity_stars(archive, Get(a, "distance_kpc", 5),
                                     Get(a, "min_velocity_kms", 300),
                                     GetOrNone(a, "limit"))
    \/ /\ tool_name = "search_stellar_stream"
       /\ search_stellar_stream(archive, a.stream_name, GetOrNone(a, "limit"))
    \/ /\ tool_name = "search_accreted_halo"
       /\ search_accreted_halo(archive, Get(a, "retrograde_only", FALSE),
                               GetOrNone(a, "limit"))
    \/ /\ tool_name = "execute_custom_adql"
       /\ execute_adql(archive, a.query)

\* the except clause also forgetting the agent's last result
AfterToolForgets(s, tc, result, returned) ==
    /\ agents' = [agents EXCEPT ![s].last_result = returned]
    /\ served' = [served EXCEPT ![s] =
                     IF returned # None
                     THEN Some([data |-> returned[1].data,
                                turn |-> turns[s].count])
                     ELSE @]
    /\ turns' = [turns EXCEPT ![s] =
                    [@ EXCEPT !.pending = Tail(@),
                              !.tool_results =
                                  Append(@, [tool_call_id |-> tc.id,
                                             role |-> "tool",
                                             content |-> result]),
                              !.plot_type =
                                  IF tc.name = "suggest_visualization"
                                  THEN GetOrNone(tc.arguments, "plot_type")
                                  ELSE @,
                              !.query_used =
                                  IF "query" \in DOMAIN result
                                  THEN Some(result.query) ELSE @]]
    /\ UNCHANGED sessions

\* What is kept of a tool call: self.last_result when the service returned
\* (`returned` is then the QueryResult, else None), and, in chat's loop,
\* the tool entry, plot_type and query_used (agent.py lines 373-386)
AfterTool(s, tc, result, returned) ==
    /\ agents' = [agents EXCEPT ![s].last_result =
                                   IF returned # None THEN returned ELSE @]
    /\ served' = [served EXCEPT ![s] =
                     IF returned # None
                     THEN Some([data |-> returned[1].data,
                                turn |-> turns[s].count])
                     ELSE @]
    /\ turns' = [turns EXCEPT ![s] =
                    [@ EXCEPT !.pending = Tail(@),
                              !.tool_results =
                                  Append(@, [tool_call_id |-> tc.id,
                                             role |-> "tool",
                                             content |-> result]),
                              !.plot_type =
                                  IF tc.name = "suggest_visualization"
                                  THEN GetOrNone(tc.arguments, "plot_type")
                                  ELSE @,
                              !.query_used =
                                  IF "query" \in DOMAIN result
                                  THEN Some(result.query) ELSE @]]
    /\ UNCHANGED sessions

\* One pass of chat's loop over the tool calls: _execute_tool on the next
\* pending call of session s
_execute_tool(s, archive) ==
    /\ turns[s].pc = "tools"
    /\ turns[s].pending # <<>>
    /\ LET tc == Head(turns[s].pending)
           missing == Missing(tc.name, tc.arguments)
       IN  IF tc.name \notin QueryTools \cup {"suggest_visualization"}
           THEN /\ UNCHANGED service_vars
                /\ AfterTool(s, tc, ToolFailure(<<"Unknown tool: ", tc.name>>),
                             None)
           ELSE IF missing # <<>>
           THEN /\ UNCHANGED service_vars
                /\ AfterTool(s, tc, ToolFailure(KeyErrorText(missing[1])), None)
           ELSE IF tc.name = "suggest_visualization"
           THEN /\ UNCHANGED service_vars
                /\ AfterTool(s, tc,
                             [success |-> TRUE,
                              plot_type |-> tc.arguments.plot_type,
                              has_data |->
                                  /\ agents[s].last_result # None
                                  /\ DfLen(agents[s].last_result[1].data) > 0],
                             None)
           ELSE /\ ServiceCall(archive, tc.name, tc.arguments)
                /\ IF outcome'.kind = "returned"
                   THEN AfterTool(s, tc,
                                  ToolSuccess(tc.name, tc.arguments,
                                              outcome'.result),
                                  Some(outcome'.result))
                   ELSE AfterTool(s, tc, ToolFailure(outcome'.message), None)

----------------------------------------------------------------------------
(* GaiaChatAgent.chat (agent.py) under process_query (ui/app.py), and the  *)
(* New Chat button.  A turn of session s runs in steps: the first model    *)
(* call, one step per tool call, the follow-up model call; the steps of    *)
(* different sessions interleave.                                          *)

\* conversation_history[-n:]
Window(history, n) ==
    SubSeq(history, Max2(1, Len(history) - n + 1), Len(history))

\* The messages of one request: the system prompt, then the window
ApiMessages(history, n) == <<[role |-> "system"]>> \o Window(history, n)

AgentResponse(message, data, plot_type, query_used) ==
    [message |-> message, data |-> data, plot_type |-> plot_type,
     query_used |-> query_used]

\* the data of the response read from the shared service
ResponseDataOfService(s) ==
    IF last_result # None THEN Some(last_result[1].data) ELSE None

\* self.last_result.data if self.last_result else None
ResponseData(s) ==
    IF agents[s].last_result # None
    THEN Some(agents[s].last_result[1].data) ELSE None

\* process_query once chat returned: current_data, then the chat message
StoreResponse(ui, response) ==
    [ui EXCEPT !.current_data = IF /\ response.data # None
                                   /\ DfLen(response.data[1]) > 0
                                THEN response.data ELSE @,
               !.messages = Append(@, [role |-> "assistant",
                                       content |-> response.message,
                                       data |-> response.data,
                                       plot_type |-> response.plot_type,
                                       query_used |-> response.query_used])]

\* process_query's except clause: only the error message is shown
StoreError(ui) ==
    [ui EXCEPT !.messages = Append(@, [role |-> "assistant",
                                       content |-> "Error processing query"])]

\* process_query(prompt) up to the first answer of the language model,
\* which fails, answers in words, or asks for the tool calls of `plan`
process_query(s, prompt, plan, llm_fails) ==
    /\ turns[s].pc = "idle"
    /\ LET history == Append(agents[s].conversation_history,
                             [role |-> "user", content |-> prompt])
           request == ApiMessages(history, 10)
           n == turns[s].count + 1
           tool_calls == [k \in 1..Len(plan) |->
                             [id |-> <<n, k>>, name |-> plan[k].name,
                              arguments |-> plan[k].arguments]]
           ui == [sessions[s] EXCEPT
                     !.show_welcome = FALSE,
                     !.messages = Append(@, [role |-> "user",
                                             content |-> prompt])]
           response == AgentResponse("answer", None, None, None)
       IN  IF llm_fails
           THEN /\ agents' = [agents EXCEPT ![s].conversation_history = history]
                /\ sessions' = [sessions EXCEPT ![s] = StoreError(ui)]
                /\ turns' = [turns EXCEPT ![s] =
                                [IdleTurn(n) EXCEPT !.requests = <<request>>,
                                                    !.raised = TRUE]]
           ELSE IF plan = <<>>
           THEN /\ agents' = [agents EXCEPT ![s].conversation_history =
                                 Append(history, [role |-> "assistant",
                                                  content |-> "answer"])]
                /\ sessions' = [sessions EXCEPT ![s] =
                                   StoreResponse(ui, response)]
                /\ turns' = [turns EXCEPT ![s] =
                                [IdleTurn(n) EXCEPT
                                    !.requests = <<request>>,
                                    !.response = Some(response)]]
           ELSE /\ agents' = [agents EXCEPT ![s].conversation_history = history]
                /\ sessions' = [sessions EXCEPT ![s] = ui]
                /\ turns' = [turns EXCEPT ![s] =
                                [IdleTurn(n) EXCEPT
                                    !.pc = "tools",
                                    !.tool_calls = tool_calls,
                                    !.pending = tool_calls,
                                    !.requests = <<request>>]]
    /\ UNCHANGED <<service_vars, served>>

\* chat after its loop over the tool calls: the history entries, the
\* follow-up model call, the response; then process_query to its end
chat_followup(s, llm_fails) ==
    /\ turns[s].pc = "tools"
    /\ turns[s].pending = <<>>
    /\ LET history == agents[s].conversation_history
                      \o <<[role |-> "assistant", content |-> "",
                            tool_calls |-> turns[s].tool_calls]>>
                      \o turns[s].tool_results
           request == ApiMessages(history, 15)
           response == AgentResponse("final", ResponseData(s),
                                     turns[s].plot_type, turns[s].query_used)
       IN  IF llm_fails
           THEN /\ agents' = [agents EXCEPT ![s].conversation_history = history]
                /\ sessions' = [sessions EXCEPT ![s] = StoreError(@)]
                /\ turns' = [turns EXCEPT ![s] =
                                [@ EXCEPT !.pc = "idle",
                                          !.requests = Append(@, request),
                                          !.raised = TRUE]]
           ELSE /\ agents' = [agents EXCEPT ![s].conversation_history =
                                 Append(history, [role |-> "assistant",
                                                  content |-> "final"])]
                /\ sessions' = [sessions EXCEPT ![s] =
                                   StoreResponse(@, response)]
                /\ turns' = [turns EXCEPT ![s] =
                                [@ EXCEPT !.pc = "idle",
                                          !.requests = Append(@, request),
                                          !.response = Some(response)]]
    /\ UNCHANGED <<service_vars, served>>

\* clear_history leaving self.last_result in place
ClearHistoryKeepsResult(agent) ==
    [agent EXCEPT !.conversation_history = <<>>]

\* GaiaChatAgent.clear_history
clear_history(agent) ==
    [agent EXCEPT !.conversation_history = <<>>, !.last_result = None]

\* The New Chat button of the sidebar, pressed between two turns
NewChat(s) ==
    /\ turns[s].pc = "idle"
    /\ sessions' = [sessions EXCEPT ![s] =
                       [@ EXCEPT !.messages = <<>>, !.current_data = None,
                                 !.show_welcome = TRUE]]
    /\ agents' = [agents EXCEPT ![s] = clear_history(@)]
    /\ turns' = [turns EXCEPT ![s] = IdleTurn(@.count)]
    /\ served' = [served EXCEPT ![s] = None]
    /\ UNCHANGED service_vars

----------------------------------------------------------------------------
(* A synthetic catalogue.  parallax is in mas; kinematics is the           *)
(* (V_R, V_phi, V_z) in km/s of the row.  The velocities sit on and next   *)
(* to the thresholds of the selections.                                    *)

Star(source_id, parallax, radial_velocity, kinematics) ==
    [source_id |-> source_id, parallax |-> parallax,
     radial_velocity |-> radial_velocity, kinematics |-> kinematics]

NyxMember         == Star(1, Num(2), Num(10), <<150, 101, 151>>)
NyxRadialEdge     == Star(2, Num(2), Num(10), <<100, 150, 150>>)
NyxUpperEdge      == Star(3, Num(2), Num(10), <<200, 100, -150>>)
GseMember         == Star(4, Num(2), Num(10), <<-151, -49, -151>>)
GseRotationEdge   == Star(5, Num(2), Num(10), <<151, 50, 0>>)
GseRadialEdge     == Star(6, Num(2), Num(10), <<150, 0, 0>>)
HaloEdge          == Star(7, Num(2), Num(10), <<-160, -50, 0>>)
SequoiaMember     == Star(8, Num(2), Num(10), <<0, -151, 0>>)
SequoiaEdge       == Star(9, Num(2), Num(10), <<0, -150, 0>>)
FastEdge          == Star(10, Num(4), Num(10), <<180, -240, 0>>)
FastMember        == Star(11, Num(4), Num(10), <<0, -350, 0>>)
NoRadialVelocity  == Star(12, Num(2), NaN, <<0, -350, 0>>)
NegativeParallax  == Star(13, Num(-1), Num(10), <<0, -350, 0>>)

Catalogue ==
    {NyxMember, NyxRadialEdge, NyxUpperEdge, GseMember, GseRotationEdge,
     GseRadialEdge, HaloEdge, SequoiaMember, SequoiaEdge, FastEdge,
     FastMember, NoRadialVelocity, NegativeParallax}

SessionCatalogue == {FastEdge, FastMember, NoRadialVelocity}

----------------------------------------------------------------------------
(* Arguments the callers pass *)

Name_Nyx == <<"N", "y", "x">>
Name_GSE == <<"G", "S", "E">>
Name_gse == <<"g", "s", "e">>
Name_Gaia_Sausage_Enceladus ==
    <<"G", "a", "i", "a", "-", "S", "a", "u", "s", "a", "g", "e", "-",
      "E", "n", "c", "e", "l", "a", "d", "u", "s">>
Name_Helmi == <<"H", "e", "l", "m", "i">>
Name_SEQUOIA == <<"S", "E", "Q", "U", "O", "I", "A">>
Name_Sequoia == <<"S", "e", "q", "u", "o", "i", "a">>
Name_Andromeda == <<"A", "n", "d", "r", "o", "m", "e", "d", "a">>
Name_Nix == <<"N", "i", "x">>

CustomQuery ==
    Adql(5, <<"source_id", "parallax">>, <<Cond("parallax > 10", <<>>)>>, None)

\* The arguments of one build_custom_adql call, the limit apart
Build(columns, conditions, order_by) ==
    [columns |-> columns, conditions |-> conditions, order_by |-> order_by]

\* The arguments of a session of any number of calls
SessionInputs ==
    [archive |-> SessionCatalogue,
     queries |-> {CustomQuery},
     cones |-> {<<180, 45, 2>>},
     limits |-> {None},
     distances_pc |-> {100, 0},
     distances_kpc |-> {5, 0},
     velocities |-> {300},
     names |-> {Name_SEQUOIA, Name_Andromeda},
     builds |-> {Build(<<>>, <<>>, None),
                 Build(<<"source_id", "parallax">>,
                       <<"parallax > 10", "ruwe < 1.4">>,
                       Some("phot_g_mean_mag ASC"))}]

\* The arguments of the first call after construction
FirstCallInputs ==
    [archive |-> Catalogue,
     queries |-> {CustomQuery},
     cones |-> {<<180, 45, 2>>},
     limits |-> {None, Some(1), Some(2)},
     distances_pc |-> {100, 0, -5},
     distances_kpc |-> {5, 0, -1},
     velocities |-> {250, 300},
     names |-> {Name_Nyx, Name_GSE, Name_gse, Name_Gaia_Sausage_Enceladus,
                Name_Helmi, Name_Sequoia, Name_Andromeda, Name_Nix},
     builds |-> {Build(c, w, o) :
                    c \in {<<>>, <<"source_id", "parallax">>},
                    w \in {<<>>, <<"parallax > 10">>,
                           <<"parallax > 10", "ruwe < 1.4">>},
                    o \in {None, Some(""), Some("phot_g_mean_mag ASC")}}]

\* The arguments of a first call under every kind of limit
LimitInputs ==
    [archive |-> {FastMember, NoRadialVelocity},
     queries |-> {CustomQuery},
     cones |-> {<<180, 45, 2>>},
     limits |-> {None, Some(0), Some(-1), Some(1), Some(3),
                 Some(max_query_results + 1)},
     distances_pc |-> {100},
     distances_kpc |-> {5},
     velocities |-> {300},
     names |-> {Name_Helmi},
     builds |-> {Build(<<>>, <<>>, None),
                 Build(<<"source_id", "parallax">>, <<"parallax > 10">>,
                       Some("phot_g_mean_mag ASC"))}]

\* The tables handed to _add_galactic_velocities on its own
TransformTables ==
    {DataFrame(BaseColumns, rows) : rows \in SeqsUpTo(Catalogue, MaxRows)}

----------------------------------------------------------------------------
(* Specifications *)

Call(in) ==
    \/ \E q \in in.queries :
          execute_adql(in.archive, q) /\ UNCHANGED chat_vars
    \/ \E c \in in.cones, l \in in.limits :
          search_cone(in.archive, c[1], c[2], c[3], l) /\ UNCHANGED chat_vars
    \/ \E d \in in.distances_pc, l \in in.limits :
          search_solar_neighborhood(in.archive, d, l) /\ UNCHANGED chat_vars
    \/ \E d \in in.distances_kpc, v \in in.velocities, l \in in.limits :
          search_hypervelocity_stars(in.archive, d, v, l)
          /\ UNCHANGED chat_vars
    \/ \E n \in in.names, l \in in.limits :
          search_stellar_stream(in.archive, n, l) /\ UNCHANGED chat_vars
    \/ \E b \in BOOLEAN, l \in in.limits :
          search_accreted_halo(in.archive, b, l) /\ UNCHANGED chat_vars
    \/ \E b \in in.builds, l \in in.limits :
          build_custom_adql(b.columns, b.conditions, l, b.order_by)
          /\ UNCHANGED chat_vars

\* A session: any number of calls on one service instance
Init == InitService /\ InitChat({})
Next == Call(SessionInputs)
Spec == Init /\ [][Next]_vars

\* The first call on a fresh service instance, over the whole catalogue
InitFirstCall == InitService /\ InitChat({})
NextFirstCall == call = NoCall /\ Call(FirstCallInputs)
SpecFirstCall == InitFirstCall /\ [][NextFirstCall]_vars

\* The first call on a fresh service instance, under every kind of limit
InitLimits == InitService /\ InitChat({})
NextLimits == call = NoCall /\ Call(LimitInputs)
SpecLimits == InitLimits /\ [][NextLimits]_vars

\* _add_galactic_velocities applied to one table
InitTransform == InitService /\ InitChat({})
NextTransform ==
    /\ call = NoCall
    /\ UNCHANGED chat_vars
    /\ \E df \in TransformTables, lib_fails \in BOOLEAN :
          AddGalacticVelocities(df, lib_fails)
SpecTransform == InitTransform /\ [][NextTransform]_vars

(* Chat sessions *)

\* The arguments dicts the language model sends
NoArguments == <<>>

ToolCall(name, arguments) == [name |-> name, arguments |-> arguments]

ConeTool == ToolCall("search_cone", ("ra" :> 180) @@ ("dec" :> 45))
HelmiTool == ToolCall("search_stellar_stream", "stream_name" :> Name_Helmi)
AndromedaTool ==
    ToolCall("search_stellar_stream", "stream_name" :> Name_Andromeda)
PlotTool == ToolCall("suggest_visualization", "plot_type" :> "cmd")

\* Tool calls of every kind: each tool, with and without the keys it needs
ToolCalls ==
    {ConeTool, HelmiTool, AndromedaTool, PlotTool,
     ToolCall("search_cone", "dec" :> 45),
     ToolCall("search_cone", NoArguments),
     ToolCall("search_solar_neighborhood", NoArguments),
     ToolCall("search_solar_neighborhood", "limit" :> 1),
     ToolCall("search_hypervelocity_stars", NoArguments),
     ToolCall("search_stellar_stream", NoArguments),
     ToolCall("search_accreted_halo", NoArguments),
     ToolCall("execute_custom_adql", "query" :> CustomQuery),
     ToolCall("execute_custom_adql", NoArguments),
     ToolCall("suggest_visualization", NoArguments),
     ToolCall("plot_sky", NoArguments)}

\* What the sessions of a specification do: the sessions, the prompts, the
\* tool calls of one answer of the model, whether the model's API fails,
\* the turns of a session, the rows the archive holds
ToolInputs ==
    [sessions |-> {1},
     prompts |-> {"ask"},
     plans |-> {<<t>> : t \in ToolCalls}
               \cup {<<t, u>> : t \in {ConeTool, HelmiTool}, u \in ToolCalls},
     llm_fails |-> {FALSE},
     max_turns |-> 1,
     archive |-> {FastMember, NoRadialVelocity}]

Ask(in) ==
    \E s \in in.sessions, p \in in.prompts, plan \in in.plans,
       f \in in.llm_fails :
        /\ turns[s].count < in.max_turns
        /\ process_query(s, p, plan, f)

Tool(in) == \E s \in in.sessions : _execute_tool(s, in.archive)

Followup(in) == \E s \in in.sessions, f \in in.llm_fails : chat_followup(s, f)

Reset(in) == \E s \in in.sessions : NewChat(s)

\* One turn of one session, the model asking for tools of every kind
InitTools == InitService /\ InitChat(ToolInputs.sessions)
NextTools == Ask(ToolInputs) \/ Tool(ToolInputs) \/ Followup(ToolInputs)
SpecTools == InitTools /\ [][NextTools]_vars

\* Two sessions of the application, one turn each, on the shared service
SharedInputs ==
    [sessions |-> {1, 2},
     prompts |-> {"ask"},
     plans |-> {<<ConeTool>>, <<ConeTool, AndromedaTool>>, <<PlotTool>>},
     llm_fails |-> {FALSE},
     max_turns |-> 1,
     archive |-> {FastMember, NoRadialVelocity}]

InitShared == InitService /\ InitChat(SharedInputs.sessions)
NextShared == Ask(SharedInputs) \/ Tool(SharedInputs) \/ Followup(SharedInputs)
SpecShared == InitShared /\ [][NextShared]_vars

\* One session over several turns: plain answers, a query, a plot
\* suggestion, failures of the model's API, and New Chat between turns
ConversationInputs ==
    [sessions |-> {1},
     prompts |-> {"ask"},
     plans |-> {<<>>, <<ConeTool>>, <<PlotTool>>},
     llm_fails |-> BOOLEAN,
     max_turns |-> MaxTurns,
     archive |-> {FastMember, NoRadialVelocity}]

InitConversation == InitService /\ InitChat(ConversationInputs.sessions)
NextConversation ==
    \/ Ask(ConversationInputs)
    \/ Tool(ConversationInputs)
    \/ Followup(ConversationInputs)
    \/ Reset(ConversationInputs)
SpecConversation == InitConversation /\ [][NextConversation]_vars

\* One session over several turns in which the model answers in words or
\* asks for one or three plot suggestions
HistoryInputs ==
    [sessions |-> {1},
     prompts |-> {"ask"},
     plans |-> {<<>>, <<PlotTool>>, <<PlotTool, PlotTool, PlotTool>>},
     llm_fails |-> {FALSE},
     max_turns |-> MaxTurns,
     archive |-> {}]

InitHistory == InitService /\ InitChat(HistoryInputs.sessions)
NextHistory ==
    Ask(HistoryInputs) \/ Tool(HistoryInputs) \/ Followup(HistoryInputs)
SpecHistory == InitHistory /\ [][NextHistory]_vars

----------------------------------------------------------------------------
(* Vocabulary of the properties *)

\* get_last_result()
get_last_result == last_result

IsCall(op) == call.op = op
ArchiveCalled == sent # <<>>
ArchiveFailed == reply # None /\ ~reply[1].ok
ArchiveSucceeded == reply # None /\ reply[1].ok
HasReturned == outcome.kind = "returned"
HasRaised == outcome.kind = "raised"

\* The stream keys the registry is documented to hold
SupportedKeys ==
    {<<"n", "y", "x">>, <<"g", "s", "e">>,
     <<"g", "a", "i", "a", "-", "s", "a", "u", "s", "a", "g", "e", "-",
       "e", "n", "c", "e", "l", "a", "d", "u", "s">>,
     <<"h", "e", "l", "m", "i">>, <<"s", "e", "q", "u", "o", "i", "a">>}

SupportedList == ". Supported: Nyx, GSE, Gaia-Sausage-Enceladus, Helmi, Sequoia"

----------------------------------------------------------------------------
(* C1 *)

\* C1: a search_stellar_stream call whose lower-cased stream_name is not a
\* supported key ends in an error whose message names the key and lists the
\* supported keys; the archive was not called and the last result is the
\* one held before the call.
C1_UnknownStreamRejected ==
    [][(call'.op = "search_stellar_stream"
        /\ Lower(call'.args.stream_name) \notin SupportedKeys)
       => LET key == Lower(call'.args.stream_name)
              message == outcome'.message
          IN  /\ outcome'.kind = "raised"
              /\ outcome'.exc = "ValueError"
              /\ Len(message) = Len(key) + 2
              /\ SubSeq(message, 2, Len(key) + 1) = key
              /\ message[Len(message)] = SupportedList
              /\ sent' = <<>>
              /\ reply' = None
              /\ last_result' = last_result]_vars

\* an unknown stream was rejected while an earlier result was held
C1_Witness ==
    /\ IsCall("search_stellar_stream")
    /\ Lower(call.args.stream_name) \notin SupportedKeys
    /\ HasRaised
    /\ get_last_result # None

----------------------------------------------------------------------------
(* C2 *)

\* C2: when the archive call fails inside a service operation, the operation
\* raises one query-execution failure whose message ends with the archive's
\* message, returns no QueryResult, called the archive once, and leaves the
\* last result as it was before the call.
C2_ArchiveFailureWrapped ==
    [][(reply' # None /\ ~reply'[1].ok)
       => /\ outcome'.kind = "raised"
          /\ outcome'.exc = "RuntimeError"
          /\ outcome'.message = <<"ADQL query failed: ", reply'[1].message>>
          /\ Len(sent') = 1
          /\ last_result' = last_result]_vars

\* the archive failed under a post-filtering operation while a result was held
C2_Witness ==
    /\ IsCall("search_accreted_halo")
    /\ ArchiveFailed
    /\ HasRaised
    /\ get_last_result # None

----------------------------------------------------------------------------
(* C3 *)

\* C3: get_last_result is None until a call succeeds; every call whose
\* archive execution succeeded returns, and leaves as last result exactly the
\* bundle it returned (table, row count, description after the post-fetch
\* selection); every other call leaves the last result as it was.
C3_LastResultIsMostRecentSuccess ==
    /\ get_last_result = None
    /\ [][/\ (reply' # None /\ reply'[1].ok) <=> outcome'.kind = "returned"
          /\ get_last_result' = IF outcome'.kind = "returned"
                                THEN Some(outcome'.result)
                                ELSE get_last_result]_vars

\* the last result is a bundle whose table the post-fetch selection shortened
C3_Witness ==
    /\ IsCall("search_hypervelocity_stars")
    /\ HasReturned
    /\ DfLen(outcome.result.data) < Len(reply[1].rows)
    /\ DfLen(outcome.result.data) > 0
    /\ get_last_result = Some(outcome.result)

----------------------------------------------------------------------------
(* Vocabulary of the selection properties *)

\* The table the archive served in the call
Fetched == DataFrame(sent[1].select, reply[1].rows)

\* The fetched table with the derived columns the call computed for it
FetchedWithVelocities ==
    _add_galactic_velocities(Fetched, transform = "failed").returned

\* A call that fetched at least one row and returned
SelectedFrom(op) ==
    IsCall(op) /\ HasReturned /\ ArchiveSucceeded /\ Len(reply[1].rows) > 0

\* The row cap the call wrote after TOP
CapOf(limit, default) == IF limit \in {None, Some(0)} THEN default ELSE limit[1]

Ids(df) == {df.rows[i].source_id : i \in 1..DfLen(df)}

IsNumber(x) == x # NaN

\* v_total > k for v_total = sqrt(V_R^2 + V_phi^2 + V_z^2), on the squares
FasterThan(row, k) ==
    /\ IsNumber(row.V_R) /\ IsNumber(row.V_phi) /\ IsNumber(row.V_z)
    /\ IsNumber(row.v_total)
    /\ \/ k < 0
       \/ row.V_R[1] * row.V_R[1] + row.V_phi[1] * row.V_phi[1]
          + row.V_z[1] * row.V_z[1] > k * k

----------------------------------------------------------------------------
(* C4 *)

\* C4: on a non-empty fetched table search_hypervelocity_stars returns
\* exactly the fetched rows whose v_total is strictly greater than
\* min_velocity_kms, in fetched order; rows at or below it, and rows whose
\* v_total is missing, are dropped.
C4_HypervelocityCut ==
    SelectedFrom("search_hypervelocity_stars")
    => /\ outcome.result.data.rows =
              SelectSeq(FetchedWithVelocities.rows,
                        LAMBDA row : FasterThan(row, call.args.min_velocity_kms))
       /\ \A i \in 1..DfLen(FetchedWithVelocities) :
             ~IsNumber(FetchedWithVelocities.rows[i].v_total)
             => FetchedWithVelocities.rows[i].source_id
                   \notin Ids(outcome.result.data)

\* a star above 300 km/s was kept and the star at exactly 300 km/s dropped
C4_Witness ==
    /\ SelectedFrom("search_hypervelocity_stars")
    /\ call.args.min_velocity_kms = 300
    /\ transform = "ok"
    /\ {reply[1].rows[i].source_id : i \in 1..Len(reply[1].rows)} =
          {FastEdge.source_id, FastMember.source_id}
    /\ Ids(outcome.result.data) = {FastMember.source_id}

----------------------------------------------------------------------------
(* C5 *)

InOpen(x, lo, hi) == IsNumber(x) /\ lo < x[1] /\ x[1] < hi

\* The documented predicate of a lower-cased stream key
RegistryPredicate(key, row) ==
    CASE key = <<"n", "y", "x">> ->
            IsNumber(row.V_phi) /\ row.V_phi[1] > 100 /\ InOpen(row.V_R, 100, 200)
      [] key \in {<<"g", "s", "e">>, Chars_gaia_sausage_enceladus} ->
            InOpen(row.V_phi, -50, 50)
            /\ IsNumber(row.V_R) /\ (row.V_R[1] > 150 \/ row.V_R[1] < -150)
      [] key = <<"h", "e", "l", "m", "i">> ->
            IsNumber(row.V_z) /\ (row.V_z[1] > 150 \/ row.V_z[1] < -150)
      [] key = <<"s", "e", "q", "u", "o", "i", "a">> ->
            IsNumber(row.V_phi) /\ row.V_phi[1] < -150

\* C5: on a non-empty fetched table search_stellar_stream returns exactly
\* the fetched rows that satisfy the registry predicate of the key on the
\* derived velocities, in fetched order, every bound strict.
C5_StreamSelection ==
    SelectedFrom("search_stellar_stream")
    => outcome.result.data.rows =
          SelectSeq(FetchedWithVelocities.rows,
                    LAMBDA row : RegistryPredicate(Lower(call.args.stream_name),
                                                   row))

\* Nyx kept its member and dropped the star at V_R = 100 exactly
C5_Witness ==
    /\ SelectedFrom("search_stellar_stream")
    /\ Lower(call.args.stream_name) = <<"n", "y", "x">>
    /\ transform = "ok"
    /\ {reply[1].rows[i].source_id : i \in 1..Len(reply[1].rows)} =
          {NyxMember.source_id, NyxRadialEdge.source_id}
    /\ Ids(outcome.result.data) = {NyxMember.source_id}

----------------------------------------------------------------------------
(* C6 *)

\* What search_accreted_halo(retrograde_only=False) returns for the data
\* and the limit of the call at hand
HaloOfAllOrbits ==
    AccretedHaloResult(ExecuteAdql(sent[1], reply[1]).result, FALSE,
                       CapOf(call.args.limit, default_query_results),
                       transform = "failed").data

RetrogradeHaloCall ==
    IsCall("search_accreted_halo") /\ HasReturned /\ call.args.retrograde_only

\* |V_phi| < 100 or V_phi < -50
HaloPredicate(row) ==
    IsNumber(row.V_phi) /\ (InOpen(row.V_phi, -100, 100) \/ row.V_phi[1] < -50)

\* C6 as claimed: for identical fetched data and the same limit the result
\* set of search_accreted_halo(retrograde_only=True) is a strict subset, by
\* source_id, of the result set of search_accreted_halo(retrograde_only=False).
C6_StrictSubset ==
    RetrogradeHaloCall
    => /\ Ids(outcome.result.data) \subseteq Ids(HaloOfAllOrbits)
       /\ Ids(outcome.result.data) # Ids(HaloOfAllOrbits)

\* C6 amended: the retrograde result set is a subset, not necessarily a
\* strict one, of the fetched rows that satisfy the retrograde_only=False
\* predicate; it is a subset of the retrograde_only=False result set
\* whenever at most `limit` fetched rows satisfy that predicate, so that
\* head(limit) cut nothing from it.
C6_SubsetUnlessCut ==
    RetrogradeHaloCall
    => LET eligible == SelectSeq(FetchedWithVelocities.rows, HaloPredicate)
       IN  /\ Ids(outcome.result.data)
                 \subseteq {eligible[i].source_id : i \in 1..Len(eligible)}
           /\ Len(eligible) <= CapOf(call.args.limit, default_query_results)
              => Ids(outcome.result.data) \subseteq Ids(HaloOfAllOrbits)

\* a retrograde search returned some but not all of what the search of all
\* orbits returns for the same data
C6_Witness ==
    /\ RetrogradeHaloCall
    /\ DfLen(outcome.result.data) > 0
    /\ Ids(outcome.result.data) \subseteq Ids(HaloOfAllOrbits)
    /\ Ids(outcome.result.data) # Ids(HaloOfAllOrbits)

----------------------------------------------------------------------------
(* C7 *)

\* C7: each post-fetch selection, applied a second time to the table it
\* produced, gives that table again: the stream criteria, the hypervelocity
\* v_total cut and both accreted-halo selections.
C7_SelectionIdempotent ==
    /\ SelectedFrom("search_stellar_stream")
       => VelocityFilter(_get_stream_criteria(Lower(call.args.stream_name))[1].key,
                         outcome.result.data) = outcome.result.data
    /\ SelectedFrom("search_hypervelocity_stars")
       => HypervelocityFilter(outcome.result.data, call.args.min_velocity_kms)
             = outcome.result.data
    /\ SelectedFrom("search_accreted_halo")
       => AccretedHaloSelect(outcome.result.data, call.args.retrograde_only,
                             CapOf(call.args.limit, default_query_results))
             = outcome.result.data

\* an accreted-halo selection kept some rows and dropped others
C7_Witness ==
    /\ SelectedFrom("search_accreted_halo")
    /\ DfLen(outcome.result.data) > 0
    /\ DfLen(outcome.result.data) < Len(reply[1].rows)

----------------------------------------------------------------------------
(* C8 *)

SameIgnoringCase(s, t) ==
    /\ Len(s) = Len(t)
    /\ \A i \in 1..Len(s) :
          \/ s[i] = t[i]
          \/ \E k \in 1..Len(UpperCase) :
                {s[i], t[i]} = {UpperCase[k], LowerCase[k]}

GseAliases == {<<"g", "s", "e">>, Chars_gaia_sausage_enceladus}

\* Two spellings of one key: the same up to letter case, or both GSE aliases
SameStream(s, t) ==
    \/ SameIgnoringCase(s, t)
    \/ \E a, b \in GseAliases : SameIgnoringCase(s, a) /\ SameIgnoringCase(t, b)

\* C8: whatever search_stellar_stream did for one spelling of a stream name
\* it does for every other spelling of the same key, on the same fetched
\* table and limit: the same rejection, or the same query text, the same
\* description and the same filtered rows.
C8_SpellingsAgree ==
    IsCall("search_stellar_stream")
    => \A other \in FirstCallInputs.names :
          SameStream(call.args.stream_name, other)
          => LET criteria == _get_stream_criteria(Lower(other))
             IN  IF ArchiveCalled
                 THEN /\ criteria # None
                      /\ sent[1] =
                            StreamQuery(criteria[1].adql_filter,
                                        CapOf(call.args.limit,
                                              default_query_results))
                      /\ HasReturned
                         => LET again ==
                                  StellarStreamResult(
                                      ExecuteAdql(sent[1], reply[1]).result,
                                      criteria[1], transform = "failed")
                            IN  /\ again.description = outcome.result.description
                                /\ again.data = outcome.result.data
                 ELSE criteria = None

\* "GSE" selected a member from a fetched table
C8_Witness ==
    /\ SelectedFrom("search_stellar_stream")
    /\ call.args.stream_name = Name_GSE
    /\ DfLen(outcome.result.data) > 0
    /\ DfLen(outcome.result.data) < Len(reply[1].rows)

----------------------------------------------------------------------------
(* C9, C10 *)

\* The parallax threshold written into every query the call sent is a
\* finite number
FiniteThresholds ==
    \A i \in 1..Len(sent) :
       Len(sent[i].where[1].value) = 2 /\ sent[i].where[1].value[2] # 0

\* C9: search_solar_neighborhood with distance_pc = 0 and
\* search_hypervelocity_stars with distance_kpc = 0 fail before any query
\* text is produced: the failure is not a query-execution failure, the
\* archive is not called, and no query with an infinite or NaN parallax
\* threshold is ever sent.
C9_ZeroDistanceRejected ==
    /\ (\/ IsCall("search_solar_neighborhood") /\ call.args.distance_pc = 0
        \/ IsCall("search_hypervelocity_stars") /\ call.args.distance_kpc = 0)
       => /\ HasRaised
          /\ outcome.exc # "RuntimeError"
          /\ sent = <<>>
          /\ reply = None
    /\ (IsCall("search_solar_neighborhood")
        \/ IsCall("search_hypervelocity_stars")) => FiniteThresholds

\* a solar-neighbourhood search at distance 0 failed while a result was held
C9_Witness ==
    /\ IsCall("search_solar_neighborhood")
    /\ call.args.distance_pc = 0
    /\ HasRaised
    /\ get_last_result # None

\* C10: a negative distance_pc or distance_kpc is reported as a failure
\* before any archive call: the archive never receives a query built from a
\* negative distance.
C10_NegativeDistanceRejected ==
    (\/ IsCall("search_solar_neighborhood") /\ call.args.distance_pc < 0
     \/ IsCall("search_hypervelocity_stars") /\ call.args.distance_kpc < 0)
    => /\ HasRaised
       /\ sent = <<>>

----------------------------------------------------------------------------
(* C11, C12 *)

\* The operations that write a row cap into a query text
QueryBuildingOps ==
    {"search_cone", "search_solar_neighborhood", "search_hypervelocity_stars",
     "search_stellar_stream", "search_accreted_halo", "build_custom_adql"}

\* The query texts the call produced: those it sent and the one it returned
TextsProduced ==
    {sent[i] : i \in 1..Len(sent)}
    \cup (IF outcome.kind = "text" THEN {outcome.text} ELSE {})

\* C11: every query text produced by the six query-building operations has
\* a row cap TOP n with n >= 1, whatever limit the caller gave (omitted, 0,
\* negative or positive).
C11_RowCapAtLeastOne ==
    call.op \in QueryBuildingOps => \A q \in TextsProduced : q.top >= 1

\* C12 as claimed: when the caller omits limit, the row cap written into
\* the query text is default_query_results in each of the six
\* query-building operations.
C12_CapIsConfiguredDefault ==
    (call.op \in QueryBuildingOps /\ call.args.limit = None)
    => \A q \in TextsProduced : q.top = default_query_results

\* C12 amended: when the caller omits limit, the row cap written into the
\* query text is default_query_results in search_cone,
\* search_solar_neighborhood, search_stellar_stream and build_custom_adql,
\* the smaller of 500 and default_query_results in
\* search_hypervelocity_stars, and twice default_query_results in
\* search_accreted_halo.
C12_CapFromConfiguredDefault ==
    (call.op \in QueryBuildingOps /\ call.args.limit = None)
    => \A q \in TextsProduced :
          q.top = CASE call.op = "search_hypervelocity_stars" ->
                          IF default_query_results < 500
                          THEN default_query_results ELSE 500
                    [] call.op = "search_accreted_halo" ->
                          default_query_results + default_query_results
                    [] OTHER -> default_query_results

\* a hypervelocity search without a limit was served under the cap 500
C12_Witness ==
    /\ IsCall("search_hypervelocity_stars")
    /\ call.args.limit = None
    /\ ArchiveSucceeded
    /\ sent[1].top = 500

----------------------------------------------------------------------------
(* C13, C14 *)

TransformCall == IsCall("_add_galactic_velocities")

\* The names of the columns of a row
ColumnsOf(row) == DOMAIN row

DerivedNames == {DerivedColumns[k] : k \in 1..Len(DerivedColumns)}

\* Every derived column of the row holds the missing marker
AllMissing(row) == \A c \in DerivedNames : row[c] = NaN

\* C13: after _add_galactic_velocities returns, on the success path and on
\* the transform-failure path alike, the table passed in has exactly the
\* columns and rows it had before the call; the derived columns exist only
\* on the returned table.
C13_InputTableUntouched ==
    TransformCall
    => /\ input_table = Some(call.args.df)
       /\ \A i \in 1..DfLen(input_table[1]) :
             ColumnsOf(input_table[1].rows[i]) \cap DerivedNames = {}

\* C14: when the frame transform cannot be computed for the batch,
\* _add_galactic_velocities does not raise: it returns a table with the
\* original columns and rows, in order, plus the five derived columns, each
\* holding NaN (not zero) in every row.
C14_FailureFillsMissing ==
    (TransformCall /\ transform = "failed")
    => /\ outcome.kind = "table"
       /\ outcome.table.columns = call.args.df.columns \o DerivedColumns
       /\ DfLen(outcome.table) = DfLen(call.args.df)
       /\ \A i \in 1..DfLen(call.args.df) :
             LET before == call.args.df.rows[i]
                 after == outcome.table.rows[i]
             IN  /\ ColumnsOf(after) = ColumnsOf(before) \cup DerivedNames
                 /\ \A c \in ColumnsOf(before) : after[c] = before[c]
                 /\ AllMissing(after)

\* the library failed on a batch of two convertible rows
C14_Witness ==
    /\ TransformCall
    /\ transform = "failed"
    /\ call.library_fails
    /\ DfLen(call.args.df) = 2
    /\ \A i \in 1..2 : HasPhaseSpace(call.args.df.rows[i])
                          /\ call.args.df.rows[i].parallax[1] > 0

----------------------------------------------------------------------------
(* C15, C16, C17 *)

TransformingOps ==
    {"search_hypervelocity_stars", "search_stellar_stream",
     "search_accreted_halo"}

\* C15: when the frame transform cannot run for the fetched batch during
\* search_hypervelocity_stars, search_stellar_stream or
\* search_accreted_halo, the operation still returns, and every fetched row
\* is in the returned table, its derived velocity columns holding the
\* missing marker.
C15_DegradedRowsReturned ==
    (call.op \in TransformingOps /\ transform = "failed")
    => /\ HasReturned
       /\ Ids(outcome.result.data) = Ids(Fetched)
       /\ \A i \in 1..DfLen(outcome.result.data) :
             AllMissing(outcome.result.data.rows[i])

\* parallax <= 0, or radial_velocity missing
Unconvertible(row) ==
    \/ row.parallax # NaN /\ row.parallax[1] <= 0
    \/ row.radial_velocity = NaN

\* parallax > 0 and radial_velocity present
Convertible(row) ==
    row.parallax # NaN /\ row.parallax[1] > 0 /\ row.radial_velocity # NaN

\* C16: in the table _add_galactic_velocities returns, every row with
\* parallax <= 0 or with missing radial_velocity has the missing marker in
\* V_R, V_phi, V_z, v_total and distance_kpc, never a number.
C16_UnconvertibleRowsMissing ==
    (TransformCall /\ transform # "not_run")
    => \A i \in 1..DfLen(outcome.table) :
          Unconvertible(outcome.table.rows[i])
          => AllMissing(outcome.table.rows[i])

\* C17: in the table _add_galactic_velocities returns while the library
\* works, every row with parallax > 0 and radial_velocity present has
\* non-missing V_R, V_phi, V_z and v_total, whatever other rows are in the
\* batch.
C17_ConvertibleRowsHaveVelocities ==
    (TransformCall /\ transform # "not_run" /\ ~call.library_fails)
    => \A i \in 1..DfLen(outcome.table) :
          Convertible(outcome.table.rows[i])
          => /\ IsNumber(outcome.table.rows[i].V_R)
             /\ IsNumber(outcome.table.rows[i].V_phi)
             /\ IsNumber(outcome.table.rows[i].V_z)
             /\ IsNumber(outcome.table.rows[i].v_total)

----------------------------------------------------------------------------
(* C18, C19 *)

\* The conditions a query text holds, the joining AND apart
ConditionsOf(query) ==
    SelectSeq([i \in 1..Len(query.where) |-> query.where[i].text],
              LAMBDA t : t # " AND ")

\* C18: build_custom_adql only returns a query text: it does not call the
\* archive and leaves the last result as it was; the text is fixed by the
\* arguments alone (the cap, the columns, the conditions, the ordering), so
\* that the same call made again returns the same text.
C18_BuilderIsPure ==
    [][call'.op = "build_custom_adql"
       => LET args == call'.args
              text == outcome'.text
          IN  /\ outcome'.kind = "text"
              /\ sent' = <<>>
              /\ reply' = None
              /\ last_result' = last_result
              /\ text.top = CapOf(args.limit, default_query_results)
              /\ text.select = IF args.columns = <<>> THEN <<"*">>
                                ELSE args.columns
              /\ ConditionsOf(text) = IF args.conditions = <<>> THEN <<"1=1">>
                                       ELSE args.conditions
              /\ text.order_by = IF args.order_by = Some("") THEN None
                                  ELSE args.order_by
              /\ (call.op = "build_custom_adql" /\ call.args = args)
                 => outcome' = outcome]_vars

\* a query text was built while the service held an earlier result
C18_Witness ==
    /\ IsCall("build_custom_adql")
    /\ outcome.kind = "text"
    /\ call.args.conditions # <<>>
    /\ get_last_result # None

\* C19: the text build_custom_adql returns for a call without order_by is
\* ordered by parallax descending; an order_by the caller gives replaces
\* that default.
C19_DefaultOrdering ==
    IsCall("build_custom_adql")
    => outcome.text.order_by = IF call.args.order_by = None
                               THEN Some("parallax DESC")
                               ELSE call.args.order_by

----------------------------------------------------------------------------
(* C20 *)

\* C20: in every call the archive is invoked at most once; when that
\* invocation fails the call ends in the failure, the archive having been
\* invoked exactly once.
C20_NoRetry ==
    /\ Len(sent) <= 1
    /\ ArchiveCalled <=> reply # None
    /\ ArchiveFailed => HasRaised /\ Len(sent) = 1

\* the archive failed under a cone search, which raised after one invocation
C20_Witness ==
    /\ IsCall("search_cone")
    /\ ArchiveFailed
    /\ HasRaised
    /\ Len(sent) = 1

----------------------------------------------------------------------------
(* C21 *)

\* C21: in the table _add_galactic_velocities returns while the library
\* works, every row with parallax > 0 has distance_kpc = 1 / parallax
\* (parallax in mas).
C21_DistanceIsInverseParallax ==
    (TransformCall /\ transform # "not_run" /\ ~call.library_fails)
    => \A i \in 1..DfLen(outcome.table) :
          LET row == outcome.table.rows[i]
          IN  (row.parallax # NaN /\ row.parallax[1] > 0)
              => /\ Len(row.distance_kpc) = 2
                 /\ row.distance_kpc[1] * row.parallax[1] = row.distance_kpc[2]

----------------------------------------------------------------------------
(* C22, C23, C24 *)

\* C22: every QueryResult a service operation returns, and the last result
\* the service holds, has row_count equal to the number of rows of its table.
C22_RowCountIsTableLength ==
    /\ HasReturned => outcome.result.row_count = DfLen(outcome.result.data)
    /\ get_last_result # None
       => get_last_result[1].row_count = DfLen(get_last_result[1].data)

\* a hypervelocity search dropped a fetched row and reports the rows kept
C22_Witness ==
    /\ SelectedFrom("search_hypervelocity_stars")
    /\ outcome.result.row_count < Len(reply[1].rows)
    /\ outcome.result.row_count = 1
    /\ get_last_result = Some(outcome.result)

\* The description the operation of the call gives its result
OwnDescription ==
    CASE IsCall("search_hypervelocity_stars") ->
            Text("Hypervelocity candidates within {distance_kpc} kpc, v > {min_velocity_kms} km/s",
                 <<call.args.distance_kpc, call.args.min_velocity_kms>>)
      [] IsCall("search_stellar_stream") ->
            (CHOOSE e \in streams :
                e.chars = Lower(call.args.stream_name)).description
      [] IsCall("search_accreted_halo") ->
            IF call.args.retrograde_only
            THEN Text("Accreted halo stars (retrograde orbits only)", <<>>)
            ELSE Text("Accreted halo stars", <<>>)

\* C23: when the archive returns zero rows, search_hypervelocity_stars,
\* search_stellar_stream and search_accreted_halo skip the velocity
\* transform and the post-fetch predicate and return a result with the
\* empty table as fetched, row_count 0 and the operation's own description.
C23_EmptyFetchSkipsSelection ==
    (call.op \in TransformingOps /\ ArchiveSucceeded /\ Len(reply[1].rows) = 0)
    => /\ HasReturned
       /\ transform = "not_run"
       /\ input_table = None
       /\ outcome.result.data = DataFrame(sent[1].select, <<>>)
       /\ outcome.result.row_count = 0
       /\ outcome.result.description = OwnDescription

\* an accreted-halo search was served zero rows and returned
C23_Witness ==
    /\ IsCall("search_accreted_halo")
    /\ ArchiveSucceeded
    /\ Len(reply[1].rows) = 0
    /\ HasReturned

----------------------------------------------------------------------------
(* C26 *)

\* C26: the row cap written into any generated query text never exceeds
\* max_query_results, whatever limit the caller gives.
C26_CapWithinMaximum ==
    call.op \in QueryBuildingOps
    => \A q \in TextsProduced : q.top <= max_query_results

----------------------------------------------------------------------------
(* C25 *)

\* Session s makes a step of _execute_tool: one more tool entry
ToolStep(s) ==
    /\ turns[s].pc = "tools"
    /\ Len(turns'[s].tool_results) = Len(turns[s].tool_results) + 1

\* The dict that step returned
ToolResult(s) == turns'[s].tool_results[Len(turns'[s].tool_results)].content

KnownTools == QueryTools \cup {"suggest_visualization"}

\* The step reached the service: a query tool with the keys it reads
ServiceReached(tc) ==
    /\ tc.name \in QueryTools
    /\ \A k \in 1..Len(RequiredKeys(tc.name)) :
          RequiredKeys(tc.name)[k] \in DOMAIN tc.arguments

LastResultKept(s) == agents'[s].last_result = agents[s].last_result

\* C25: _execute_tool never raises: a failed service call (unknown stream,
\* archive failure) and a missing required argument come back as a dict
\* with success False and the failure's message as error text, an unknown
\* tool name comes back with success False and no service call, and in
\* all these cases the agent's last_result is unchanged.
C25_ToolFailuresAreReturned ==
    [][\A s \in DOMAIN turns :
          ToolStep(s) =>
              LET tc == Head(turns[s].pending)
                  result == ToolResult(s)
              IN  /\ ~turns'[s].raised
                  /\ result.success \in BOOLEAN
                  /\ tc.name \notin KnownTools
                     => /\ result.success = FALSE
                        /\ "error" \in DOMAIN result
                        /\ UNCHANGED service_vars
                        /\ LastResultKept(s)
                  /\ (tc.name \in KnownTools /\ ~ServiceReached(tc)
                         /\ tc.name # "suggest_visualization")
                     => /\ result.success = FALSE
                        /\ \E k \in 1..Len(RequiredKeys(tc.name)) :
                              result.error =
                                  <<"'", RequiredKeys(tc.name)[k], "'">>
                        /\ UNCHANGED service_vars
                        /\ LastResultKept(s)
                  /\ (ServiceReached(tc) /\ outcome'.kind = "raised")
                     => /\ result = [success |-> FALSE,
                                     error |-> outcome'.message]
                        /\ LastResultKept(s)
                  /\ ~result.success => LastResultKept(s)
      ]_vars

\* A query tool fails after an earlier tool call of the turn succeeded
C25_Witness ==
    \E s \in DOMAIN turns :
        /\ Len(turns[s].tool_results) = 2
        /\ turns[s].tool_results[1].content.success
        /\ ~turns[s].tool_results[2].content.success
        /\ turns[s].tool_calls[2].name = "search_stellar_stream"
        /\ outcome.kind = "raised"
        /\ outcome.exc = "ValueError"
        /\ agents[s].last_result # None

----------------------------------------------------------------------------
(* C27 *)

\* The table of the most recent successful query made for session s since
\* its agent was constructed or cleared, None if there was none
TableServed(s) == IF served[s] = None THEN None ELSE Some(served[s][1].data)

\* Session s has the response of a turn in which the model asked for tools
ToolTurnAnswered(s) == turns[s].response # None /\ turns[s].tool_calls # <<>>

\* C27: with the tool calls of several chat sessions interleaved on the
\* shared service, the table a session's turn returns is the table of that
\* session's own most recent successful query (served[s]), whatever the
\* service's own last-result slot holds by then.
C27_SessionTableIsItsOwn ==
    \A s \in DOMAIN turns :
        ToolTurnAnswered(s) => turns[s].response[1].data = TableServed(s)

\* Both sessions have answered with a table of their own, they differ, and
\* the service's slot holds the one of session 2
C27_Witness ==
    /\ DOMAIN turns = {1, 2}
    /\ ToolTurnAnswered(1) /\ ToolTurnAnswered(2)
    /\ turns[1].response[1].data # None
    /\ turns[2].response[1].data # None
    /\ turns[1].response[1].data # turns[2].response[1].data
    /\ last_result # None
    /\ turns[2].response[1].data = Some(last_result[1].data)
    /\ Len(turns[1].requests) = 2
    /\ sessions[1].current_data # sessions[2].current_data

----------------------------------------------------------------------------
(* C28 *)

\* A query tool call of the turn of session s under way succeeded
QuerySucceededInTurn(s) ==
    \E k \in 1..Len(turns[s].tool_results) :
        /\ turns[s].tool_calls[k].name \in QueryTools
        /\ turns[s].tool_results[k].content.success

\* C28: the response of a turn in which the model asked for tools carries
\* the table of the agent's most recent successful query tool call of the
\* conversation; when no query tool of the turn succeeded that table is the
\* one of an earlier turn; data is None only if no query has succeeded
\* since construction or the last clear_history.
C28_DataIsLatestSuccessfulTable ==
    \A s \in DOMAIN turns :
        ToolTurnAnswered(s) =>
            LET data == turns[s].response[1].data
            IN  /\ served[s] = None <=> data = None
                /\ served[s] # None =>
                      /\ data = Some(served[s][1].data)
                      /\ QuerySucceededInTurn(s)
                         <=> served[s][1].turn = turns[s].count
                      /\ ~QuerySucceededInTurn(s)
                         => served[s][1].turn < turns[s].count

\* A turn that only asked for a plot, or whose query failed, answered with
\* the table of an earlier turn
C28_Witness ==
    \E s \in DOMAIN turns :
        /\ ToolTurnAnswered(s)
        /\ ~QuerySucceededInTurn(s)
        /\ turns[s].response[1].data # None
        /\ served[s][1].turn < turns[s].count
        /\ turns[s].tool_calls[1].name = "search_cone"

----------------------------------------------------------------------------
(* C30 *)

\* The turn of session s ends in this step, with a response or an error
TurnEnds(s) == turns[s].pc = "tools" /\ turns'[s].pc = "idle"

\* The turn of s asked for queries, and each failed or returned no row
QueriesFailedOrEmpty(s) ==
    /\ \E k \in 1..Len(turns[s].tool_calls) :
          turns[s].tool_calls[k].name \in QueryTools
    /\ \A k \in 1..Len(turns[s].tool_results) :
          turns[s].tool_calls[k].name \in QueryTools
          => \/ ~turns[s].tool_results[k].content.success
             \/ turns[s].tool_results[k].content.row_count = 0

\* C30: current_data is always None or a non-empty table, the table of the
\* most recent response that carried at least one row; a turn whose
\* queries return zero rows or fail leaves it unchanged; only New Chat
\* resets it to None.
C30_CurrentDataIsLatestNonEmpty ==
    [][\A s \in DOMAIN sessions :
          LET before == sessions[s].current_data
              after == sessions'[s].current_data
          IN  /\ after = None \/ DfLen(after[1]) > 0
              /\ (turns'[s].response # turns[s].response
                     /\ turns'[s].response # None)
                 => LET data == turns'[s].response[1].data
                    IN  after = IF data # None /\ DfLen(data[1]) > 0
                                THEN data ELSE before
              /\ (TurnEnds(s) /\ QueriesFailedOrEmpty(s)) => after = before
              /\ (after = None /\ before # None)
                 => /\ sessions'[s].messages = <<>>
                    /\ agents'[s] = NewAgent
      ]_vars

----------------------------------------------------------------------------
(* C29 *)

\* Entry i of the message list m answers a tool call of an assistant entry
\* that comes before it in m
Grouped(m, i) ==
    \E j \in 1..(i - 1) :
        /\ m[j].role = "assistant"
        /\ "tool_calls" \in DOMAIN m[j]
        /\ \E k \in 1..Len(m[j].tool_calls) :
              m[j].tool_calls[k].id = m[i].tool_call_id

\* C29: in every message list sent to the model's API, each role='tool'
\* entry is preceded, in that list, by the assistant entry whose tool_calls
\* contain its tool_call_id: the windows of the last 10 and of the last 15
\* entries never cut a tool-call group apart.
C29_WindowsKeepToolGroups ==
    \A s \in DOMAIN turns :
        \A r \in 1..Len(turns[s].requests) :
            LET m == turns[s].requests[r]
            IN  \A i \in 1..Len(m) : m[i].role = "tool" => Grouped(m, i)

====
